---- MODULE Spec2Model ----
(***************************************************************************)
(* Model of disco-backend (src/main.py): the coupon-code extraction        *)
(* pipeline of the two endpoints /codes-detailed (Gemini) and              *)
(* /codes-detailed-chatgpt (ChatGPT), and the Redis result cache in front  *)
(* of them.                                                                *)
(*                                                                         *)
(* Python str values are TLA+ strings; the str methods the code calls      *)
(* (strip, upper, lower, split, replace, isalnum, isupper, isdigit,        *)
(* startswith, re.sub) are operators that compute what the methods compute *)
(* on ASCII text.                                                          *)
(***************************************************************************)
EXTENDS Integers, Sequences, FiniteSets, TLC

(***************************************************************************)
(* Python str primitives                                                   *)
(***************************************************************************)
LowerLetters == "abcdefghijklmnopqrstuvwxyz"
UpperLetters == "ABCDEFGHIJKLMNOPQRSTUVWXYZ"
DigitChars == "0123456789"

Char(s, i) == SubSeq(s, i, i)

CharsOf(s) == {Char(s, i) : i \in 1..Len(s)}

LowerSet == CharsOf(LowerLetters)
UpperSet == CharsOf(UpperLetters)
DigitSet == CharsOf(DigitChars)

\* str.isspace() for one character (ASCII whitespace).
Whitespace == {" ", "\n", "\t", "\r", "\f"}

PosIn(c, s) == CHOOSE i \in 1..Len(s) : Char(s, i) = c

UpperMap == [c \in LowerSet |-> Char(UpperLetters, PosIn(c, LowerLetters))]
LowerMap == [c \in UpperSet |-> Char(LowerLetters, PosIn(c, UpperLetters))]

UpperChar(c) == IF c \in LowerSet THEN UpperMap[c] ELSE c

LowerChar(c) == IF c \in UpperSet THEN LowerMap[c] ELSE c

RECURSIVE Upper(_)
Upper(s) == IF s = "" THEN "" ELSE UpperChar(Head(s)) \o Upper(Tail(s))

RECURSIVE Lower(_)
Lower(s) == IF s = "" THEN "" ELSE LowerChar(Head(s)) \o Lower(Tail(s))

RECURSIVE LStrip(_)
LStrip(s) == IF s = "" THEN ""
             ELSE IF Head(s) \in Whitespace THEN LStrip(Tail(s)) ELSE s

RECURSIVE RStrip(_)
RStrip(s) == IF s = "" THEN ""
             ELSE IF Char(s, Len(s)) \in Whitespace
                  THEN RStrip(SubSeq(s, 1, Len(s) - 1)) ELSE s

Strip(s) == RStrip(LStrip(s))

StartsWith(s, t) == Len(s) >= Len(t) /\ SubSeq(s, 1, Len(t)) = t

\* str.find(t) + 1: the 1-based position of the first occurrence of t, 0 if none.
RECURSIVE FindFrom(_, _, _)
FindFrom(s, t, i) == IF i + Len(t) - 1 > Len(s) THEN 0
                     ELSE IF SubSeq(s, i, i + Len(t) - 1) = t THEN i
                     ELSE FindFrom(s, t, i + 1)

Find(s, t) == FindFrom(s, t, 1)

\* t in s
Contains(s, t) == Find(s, t) > 0

\* str.split(sep): every occurrence splits; "" splits to [""].
RECURSIVE Split(_, _)
Split(s, sep) == LET i == Find(s, sep)
                 IN  IF i = 0 THEN <<s>>
                     ELSE <<SubSeq(s, 1, i - 1)>>
                          \o Split(SubSeq(s, i + Len(sep), Len(s)), sep)

\* str.split(sep, 1): at most one split, at the first occurrence.
SplitOnce(s, sep) == LET i == Find(s, sep)
                     IN  IF i = 0 THEN <<s>>
                         ELSE <<SubSeq(s, 1, i - 1), SubSeq(s, i + Len(sep), Len(s))>>

\* str.replace(c, '') for a one-character c.
RECURSIVE Remove(_, _)
Remove(s, c) == IF s = "" THEN ""
                ELSE IF Head(s) = c THEN Remove(Tail(s), c)
                ELSE Head(s) \o Remove(Tail(s), c)

\* str.isalnum(): non-empty and every character a letter or a digit.
IsAlnum(s) == s /= "" /\ CharsOf(s) \subseteq (LowerSet \cup UpperSet \cup DigitSet)

\* str.isupper(): at least one cased character and no lower-case one.
IsUpper(s) == CharsOf(s) \cap UpperSet /= {} /\ CharsOf(s) \cap LowerSet = {}

\* any(c.isdigit() for c in s)
AnyDigit(s) == CharsOf(s) \cap DigitSet /= {}

(***************************************************************************)
(* The extractor: lines 207-338 (Gemini) and 414-561 (ChatGPT)             *)
(***************************************************************************)
Endpoints == {"gemini", "chatgpt"}

\* The words that are never codes; the two endpoints hold the same list.
excluded_words == {
    "FOUND", "SEVERAL", "TYPES", "BUT", "SPECIFIC", "UNIVERSALLY", "APPLICABLE",
    "ARE", "LESS", "COMMON", "MANY", "ACTIVATED", "THROUGH", "MEMBERSHIP",
    "VERIFICATION", "AUTOMATICALLY", "APPLIED", "DURING", "SALES", "BASED",
    "THE", "SEARCH", "RESULTS", "HERE", "SOME", "GENERAL", "DISCOUNT",
    "CATEGORIES", "AND", "OFFERS", "THAT", "FUNCTION", "LIKE", "CODES",
    "WIDELY", "OFF", "REQUIRES", "OFTEN", "FOR", "MEMBERS", "APP",
    "ORDER", "FREE", "SHIPPING", "EARLY", "ACCESS", "EXCLUSIVE", "CODE",
    "SIGNING", "MENTIONED", "SNIPPETS", "TIME", "SENSITIVE", "REQUIRE",
    "CONDITIONS", "BUYING", "MULTIPLE", "ITEMS", "CANNOT", "PROVIDE",
    "ACTUAL", "VALID", "CURRENTLY", "ACTIVE", "ALPHANUMERIC", "WITHOUT",
    "ONGOING", "PROMOTION", "INDICATE", "PROCESSES", "RATHER", "THAN",
    "SIMPLE", "PUBLIC", "THEREFORE", "THERE", "LIST", "DIRECTLY",
    "REQUESTED", "FORMAT", "DIFFERENT", "VERIFY", "WITH", "BIRTHDAY",
    "NIKE", "AMAZON", "WALMART", "MCDONALDS", "MCDONALD", "DISCOUNT",
    "COUPON", "PROMO", "DEAL", "SALE", "SAVE", "PERCENT", "DOLLAR",
    "UNFORTUNATELY", "DEALS", "SPECIFIC", "FOLLOWING", "AVAILABLE",
    "CURRENTLY", "WEBSITE", "ONLINE", "STORE", "PURCHASE", "CHECKOUT",
    "WHEN", "YOUR", "YOU", "CAN", "GET", "USE", "HAVE", "WILL", "THIS",
    "FROM", "WITH", "THEIR", "THEY", "ALSO", "MORE", "SOME", "ALL",
    "EACH", "ONLY", "FIRST", "LAST", "NEXT", "MAKE", "GOOD", "NEW",
    "USED", "WAY", "MAY", "TAKE", "COME", "ITS", "NOW", "FIND", "LONG",
    "DOWN", "DAY", "DID", "GET", "HAS", "HER", "HIM", "HIS", "HOW",
    "MAN", "OLD", "SEE", "TWO", "WHO", "BOY", "CAME", "ITS", "LET",
    "PUT", "SAY", "SHE", "TOO", "USE", "COMPILATION", "DETAILS",
    "RESTRICTIONS", "EXPIRATION", "DATES", "MINIMUM", "MAXIMUM",
    "USERS", "CUSTOMERS", "ORDERS", "ITEMS", "PRODUCTS", "SELECTION",
    "POPULAR", "DEVICES", "BOOKS", "HOME", "KITCHEN", "BEAUTY",
    "FASHION", "DELIVERY", "TRIAL", "MONTH", "STUDENT", "PRIME",
    "CARDS", "FIRE", "STICK", "RING", "CAMERA", "AUDIO", "SMART",
    "WIRELESS", "KINDLE", "AUDIBLE", "AUDIOBOOKS", "COMPUTER",
    "MOUNTS", "CABLES", "TOTAL", "SELECTED", "GRAPHIC", "COMIC",
    "LIGHTNING", "SUBSCRIBE", "OVER", "SPEND", "SELECT", "ADDITIONALLY",
    "PLEASE", "NOTE", "CHANGE", "FREQUENTLY", "ALWAYS", "IDEA",
    "TERMS", "SITE", "BEFORE", "MAKING", "PROMOTIONS", "OTHER",
    "WAYS", "STILL", "HOWEVER", "TRADITIONAL", "UNIVERSALLY",
    "PROVIDES", "VARIOUS", "COMPILATION", "USING"
}

DescriptionFillers == {"discount amount not specified", "discount not specified",
                       "amount not specified", ""}

ConditionsFillers == {"no specific conditions mentioned", "no specific conditions found",
                      "conditions not specified", "no conditions", ""}

\* The dash branch's list has no "" entry.
DashDescriptionFillers == {"discount amount not specified", "discount not specified",
                           "amount not specified"}

DescriptionPlaceholder == "Discount amount not available"
ConditionsPlaceholder == "Conditions not available"
MissingConditions == "no specific conditions mentioned"

CiteTokens == {".com", ".org", ".net", "http://", "https://"}

HasCiteToken(s) == \E t \in CiteTokens : Contains(s, t)

\* re.sub(r'\s*<open>[^<close>]*(?:\.com|\.org|\.net|https?://)[^<close>]*<close>', '', s):
\* a match starts at a run of whitespace followed by open, runs to the first close,
\* and holds a token in between; matches are taken leftmost, without overlap.
RECURSIVE SubCitation(_, _, _)
SubCitation(s, open, close) ==
    IF s = "" THEN ""
    ELSE LET r == LStrip(s)
             j == Find(r, close)
         IN  IF r /= "" /\ Head(r) = open /\ j > 0 /\ HasCiteToken(SubSeq(r, 2, j - 1))
             THEN SubCitation(SubSeq(r, j + 1, Len(r)), open, close)
             ELSE Head(s) \o SubCitation(Tail(s), open, close)

\* re.sub(r'\s+', ' ', s)
RECURSIVE CollapseSpaces(_)
CollapseSpaces(s) ==
    IF s = "" THEN ""
    ELSE IF Head(s) \in Whitespace THEN " " \o CollapseSpaces(LStrip(s))
    ELSE Head(s) \o CollapseSpaces(Tail(s))

clean_source_references(text) ==
    Strip(CollapseSpaces(SubCitation(SubCitation(text, "(", ")"), "[", "]")))

\* Python's `a and b` for a str a and a bool b: a itself when a is falsy (""),
\* b otherwise. The value keeps its Python type, which CodeInfo validates.
PyAnd(a, b) == IF a = "" THEN [type |-> "str", truthy |-> FALSE]
               ELSE [type |-> "bool", truthy |-> b]
\* The gate without its lexicon test.
PipeGate_no_lexicon(code) ==
    /\ code /= ""
    /\ Len(code) >= 3 /\ Len(code) <= 20
    /\ IsAlnum(Remove(Remove(Remove(code, "-"), "_"), "%"))
    /\ (AnyDigit(code) \/ IsUpper(code))

\* Lines 282-286: the pipe branch's gate, on the upper-cased code.
PipeGate(code) ==
    /\ code /= ""
    /\ Len(code) >= 3 /\ Len(code) <= 20
    /\ IsAlnum(Remove(Remove(Remove(code, "-"), "_"), "%"))
    /\ code \notin excluded_words
    /\ (AnyDigit(code) \/ IsUpper(code))

\* A dash gate that removes '%' as the pipe gate does.
DashGate_strips_percent(code) ==
    /\ code /= ""
    /\ Len(code) >= 3 /\ Len(code) <= 20
    /\ IsAlnum(Remove(Remove(Remove(code, "-"), "_"), "%"))
    /\ code \notin excluded_words
    /\ (AnyDigit(code) \/ IsUpper(code))

\* Lines 312-315: the dash branch's gate; '%' is not removed.
DashGate(code) ==
    /\ code /= ""
    /\ Len(code) >= 3 /\ Len(code) <= 20
    /\ IsAlnum(Remove(Remove(code, "-"), "_"))
    /\ code \notin excluded_words
    /\ (AnyDigit(code) \/ IsUpper(code))

\* CodeInfo(...): pydantic validates the two bool fields; a str that is not a
\* boolean word (here "") is a ValidationError.
CodeInfo(code, description, conditions, has_description, has_conditions) ==
    IF has_description.type = "bool" /\ has_conditions.type = "bool"
    THEN [kind |-> "record",
          rec |-> [code |-> code, description |-> description, conditions |-> conditions,
                   has_description |-> has_description.truthy,
                   has_conditions |-> has_conditions.truthy]]
    ELSE [kind |-> "raise"]

NoRecord == [kind |-> "skip"]

\* Lines 262-293 / 481-516: CODE | description | conditions
ParsePipe(endpoint, line) ==
    LET raw == Split(line, "|")
        parts == [i \in 1..Len(raw) |-> Strip(raw[i])]
        code == Strip(Upper(parts[1]))
        description0 == parts[2]
        conditions0 == IF Len(parts) > 2 THEN parts[3] ELSE MissingConditions
        description1 == IF endpoint = "chatgpt" THEN clean_source_references(description0)
                        ELSE description0
        conditions1 == IF endpoint = "chatgpt" THEN clean_source_references(conditions0)
                       ELSE conditions0
        has_description == PyAnd(description1, Lower(description1) \notin DescriptionFillers)
        has_conditions == PyAnd(conditions1, Lower(conditions1) \notin ConditionsFillers)
        description == IF has_description.truthy THEN description1 ELSE DescriptionPlaceholder
        conditions == IF has_conditions.truthy THEN conditions1 ELSE ConditionsPlaceholder
    IN  IF Len(parts) >= 2 /\ PipeGate(code)
        THEN CodeInfo(code, description, conditions, has_description, has_conditions)
        ELSE NoRecord

\* Lines 297-322 / 520-545: CODE - description
ParseDash(line) ==
    LET parts == SplitOnce(line, " - ")
        code == Upper(Strip(parts[1]))
        description0 == Strip(parts[2])
        has_description == PyAnd(description0, Lower(description0) \notin DashDescriptionFillers)
        has_conditions == [type |-> "bool", truthy |-> FALSE]
        description == IF has_description.truthy THEN description0 ELSE DescriptionPlaceholder
    IN  IF Len(parts) = 2 /\ DashGate(code)
        THEN CodeInfo(code, description, ConditionsPlaceholder, has_description, has_conditions)
        ELSE NoRecord

\* Lines 256-322 / 475-545: one iteration of the loop over the lines.
ParseLine(endpoint, rawline) ==
    LET line == Strip(rawline)
    IN  IF line = "" \/ StartsWith(line, "#") \/ Len(line) < 3 THEN NoRecord
        ELSE IF Contains(line, "|") THEN ParsePipe(endpoint, line)
        ELSE IF Contains(line, " - ") THEN ParseDash(line)
        ELSE NoRecord

\* The loop over the lines: the accepted records in order, or the exception
\* the first failing CodeInfo(...) raises.
RECURSIVE ParseLines(_, _, _)
ParseLines(endpoint, lines, detailed_codes) ==
    IF lines = <<>> THEN [ok |-> TRUE, codes |-> detailed_codes]
    ELSE LET r == ParseLine(endpoint, Head(lines))
         IN  IF r.kind = "raise" THEN [ok |-> FALSE, codes |-> <<>>]
             ELSE ParseLines(endpoint, Tail(lines),
                             IF r.kind = "record" THEN Append(detailed_codes, r.rec)
                             ELSE detailed_codes)

\* A replace condition that asks for both fields to improve.
Improves_both(code_info, existing) ==
    /\ code_info.has_description /\ ~existing.has_description
    /\ code_info.has_conditions /\ ~existing.has_conditions

\* Lines 333-334 / 556-557: does the later record replace the stored one?
Improves(code_info, existing) ==
    \/ code_info.has_description /\ ~existing.has_description
    \/ code_info.has_conditions /\ ~existing.has_conditions

IndexOfCode(unique_codes, code) ==
    IF \E i \in 1..Len(unique_codes) : unique_codes[i].code = code
    THEN CHOOSE i \in 1..Len(unique_codes) : unique_codes[i].code = code
    ELSE 0

\* A merge that puts a replacing record at the end (delete, then insert).
MergeOne_reinsert(unique_codes, code_info) ==
    LET i == IndexOfCode(unique_codes, code_info.code)
    IN  IF i = 0 THEN Append(unique_codes, code_info)
        ELSE IF Improves(code_info, unique_codes[i])
             THEN Append(SubSeq(unique_codes, 1, i - 1)
                            \o SubSeq(unique_codes, i + 1, Len(unique_codes)), code_info)
             ELSE unique_codes

\* Lines 327-335 / 550-558: one iteration of the merge loop. unique_codes is the
\* dict in insertion order; assigning to a key already present keeps its place.
MergeOne(unique_codes, code_info) ==
    LET i == IndexOfCode(unique_codes, code_info.code)
    IN  IF i = 0 THEN Append(unique_codes, code_info)
        ELSE IF Improves(code_info, unique_codes[i])
             THEN [unique_codes EXCEPT ![i] = code_info]
             ELSE unique_codes

RECURSIVE Merge(_, _)
Merge(detailed_codes, unique_codes) ==
    IF detailed_codes = <<>> THEN unique_codes
    ELSE Merge(Tail(detailed_codes), MergeOne(unique_codes, Head(detailed_codes)))

\* Lines 211-338 / 418-561: strip, split into lines, parse, merge.
Parse(endpoint, text) ==
    LET parsed == ParseLines(endpoint, Split(Strip(text), "\n"), <<>>)
    IN  IF parsed.ok THEN [ok |-> TRUE, codes |-> Merge(parsed.codes, <<>>)]
        ELSE parsed

(***************************************************************************)
(* json.dumps / json.loads (lines 81, 97).  The text redis holds is a      *)
(* sequence of JSON tokens.                                                *)
(***************************************************************************)
Punct(v) == [t |-> "punct", v |-> v]
JsonString(v) == [t |-> "string", v |-> v]
JsonBool(b) == [t |-> "literal", v |-> IF b THEN "true" ELSE "false"]
\* A dump that writes the conditions under both text keys.
DumpsCodeInfo_conditions_twice(r) ==
    << Punct("{"),
       JsonString("code"), Punct(":"), JsonString(r.code), Punct(","),
       JsonString("description"), Punct(":"), JsonString(r.conditions), Punct(","),
       JsonString("conditions"), Punct(":"), JsonString(r.conditions), Punct(","),
       JsonString("has_description"), Punct(":"), JsonBool(r.has_description), Punct(","),
       JsonString("has_conditions"), Punct(":"), JsonBool(r.has_conditions),
       Punct("}") >>

DumpsCodeInfo(r) ==
    << Punct("{"),
       JsonString("code"), Punct(":"), JsonString(r.code), Punct(","),
       JsonString("description"), Punct(":"), JsonString(r.description), Punct(","),
       JsonString("conditions"), Punct(":"), JsonString(r.conditions), Punct(","),
       JsonString("has_description"), Punct(":"), JsonBool(r.has_description), Punct(","),
       JsonString("has_conditions"), Punct(":"), JsonBool(r.has_conditions),
       Punct("}") >>

RECURSIVE DumpsItems(_)
DumpsItems(codes) ==
    IF codes = <<>> THEN <<>>
    ELSE IF Len(codes) = 1 THEN DumpsCodeInfo(codes[1])
    ELSE DumpsCodeInfo(Head(codes)) \o <<Punct(",")>> \o DumpsItems(Tail(codes))

\* json.dumps(value.dict()) for a DetailedCodesResponse
Dumps(value) ==
    << Punct("{"), JsonString("codes"), Punct(":"), Punct("[") >>
    \o DumpsItems(value.codes)
    \o << Punct("]"), Punct("}") >>

\* The dict a list of (key, value) pairs denotes; a repeated key keeps its last value.
DictOf(pairs) ==
    [k \in {pairs[i][1] : i \in 1..Len(pairs)} |->
        pairs[CHOOSE i \in 1..Len(pairs) :
                /\ pairs[i][1] = k
                /\ \A j \in (i + 1)..Len(pairs) : pairs[j][1] /= k][2]]

\* json.loads: recursive descent over the tokens; each returns the value read
\* and the position after it.
RECURSIVE LoadsValue(_, _), LoadsItems(_, _, _), LoadsMembers(_, _, _)
LoadsValue(tokens, i) ==
    LET tok == tokens[i]
    IN  IF tok.t = "string" THEN [val |-> tok.v, next |-> i + 1]
        ELSE IF tok.t = "literal" THEN [val |-> (tok.v = "true"), next |-> i + 1]
        ELSE IF tok.v = "[" THEN LoadsItems(tokens, i + 1, <<>>)
        ELSE LoadsMembers(tokens, i + 1, <<>>)

LoadsItems(tokens, i, acc) ==
    IF tokens[i] = Punct("]") THEN [val |-> acc, next |-> i + 1]
    ELSE IF tokens[i] = Punct(",") THEN LoadsItems(tokens, i + 1, acc)
    ELSE LET item == LoadsValue(tokens, i)
         IN  LoadsItems(tokens, item.next, Append(acc, item.val))

LoadsMembers(tokens, i, acc) ==
    IF tokens[i] = Punct("}") THEN [val |-> DictOf(acc), next |-> i + 1]
    ELSE IF tokens[i] = Punct(",") THEN LoadsMembers(tokens, i + 1, acc)
    ELSE LET member == LoadsValue(tokens, i + 2)
         IN  LoadsMembers(tokens, member.next, Append(acc, <<tokens[i].v, member.val>>))

Loads(tokens) == LoadsValue(tokens, 1).val

(***************************************************************************)
(* Bounds and inputs                                                       *)
(***************************************************************************)
\* Concurrent requests.
NumProcs == 2
\* Chunks one upstream stream delivers at most.
MaxChunks == 1
\* Lines of an upstream text in the extractor's own specification.
MaxLines == 2
\* Clock ticks per cache TTL.
TicksPerTTL == 2

Procs == 1..NumProcs

\* Line 72
CACHE_TTL_SECONDS == 60 * 60
\* Line 171
max_retries == 2

TickSeconds == CACHE_TTL_SECONDS \div TicksPerTTL
\* Ages are counted up to here; an age of AgeCap reads "AgeCap or more".
AgeCap == CACHE_TTL_SECONDS

\* The prompts of the requests; both strip to the same key.
Prompts == {"nike", " nike\n"}

\* What the Gemini stream delivers, chunk by chunk, and what ChatGPT returns.
Chunks == {"SAVE20 | 20% off | no conditions\n",
           "Sorry, I found no codes.\n"}

\* The lines of the upstream texts the extractor is checked on.
Lines == {
    "SAVE20 | 20% off | new users",
    "save20 | 10% off",
    "hello | world",
    "THE | best | deal",
    "AB | 20% off | new users",
    "ABCDEFGHIJKLMNOPQRST | 20% off | new users",
    "ABCDEFGHIJKLMNOPQRSTU | 20% off | new users",
    "A1B - 5% off",
    "SAVE20% | 20% off | new users",
    "-_% | 20% off | new users",
    "SAVE20 | discount not specified | new users",
    "SAVE20 | 20% off | no conditions",
    "SAVE20 | Discount Amount Not Specified | No Specific Conditions Found",
    "SAVE20 | 20% off |",
    "SAVE20 | | new users",
    "SAVE20 | Discount amount not available | Conditions not available",
    "SAVE20 | 20% off (joinhoney.com) | new users [https://x.org/a]",
    "SAVE20 | (retailmenot.com) | new users",
    "THE | | x",
    "SAVE20 - 20% off orders over $50",
    "SAVE20% - 20% off",
    "\tGET-10_X|30% off|students|extra\r",
    "Here are some codes"
}

\* The texts of 1..n lines.
RECURSIVE TextsOf(_)
TextsOf(n) == IF n = 1 THEN Lines
              ELSE TextsOf(n - 1) \cup {t \o "\n" \o l : t \in TextsOf(n - 1), l \in Lines}

Texts == TextsOf(MaxLines)

(***************************************************************************)
(* State                                                                   *)
(***************************************************************************)
VARIABLES
    redis,        \* redis_client's store: cache key -> the text held and its remaining TTL
    handler,      \* one frame per request handler: its position, locals and response
    running,      \* the handler that holds the event loop (0: none)
    last_written, \* per cache key, the value of the last setex that succeeded, while held
    writes,       \* per cache key, the number of setex calls that succeeded
    writer,       \* per cache key, the endpoint of the last setex that succeeded ("": none)
    age           \* per cache key, the seconds since its last successful setex (-1: never)

vars == <<redis, handler, running, last_written, writes, writer, age>>

\* One prefix for both endpoints.
Prefix_shared(endpoint) == "codes_detailed"

\* Lines 120 / 359: the cache prefix of the endpoint.
Prefix(endpoint) == IF endpoint = "gemini" THEN "codes_detailed" ELSE "codes_detailed_chatgpt"

\* Lines 77 / 91
CacheKey(cache_prefix, key) == cache_prefix \o ":" \o key

CacheKeys == {CacheKey(Prefix(e), Strip(p)) : e \in Endpoints, p \in Prompts}

\* A key redis does not hold.
Absent == [data |-> <<>>, ttl |-> 0]

\* Python's None, and a value that is not None.
None == [is_none |-> TRUE, value |-> <<>>]
Some(v) == [is_none |-> FALSE, value |-> v]

\* A read that takes an empty record set for no entry.
cache_get_empty_is_miss(store, redis_up, cache_prefix, key) ==
    LET cache_key == CacheKey(cache_prefix, key)
        cached_data == store[cache_key].data
    IN  IF ~redis_up THEN None
        ELSE IF store[cache_key].ttl > 0 /\ Len(cached_data) > 0
                  /\ Loads(cached_data).codes /= <<>>
             THEN Some(Loads(cached_data))
        ELSE None

\* Lines 74-86.  redis_up: whether redis_client.get succeeds or raises.
\* redis_client.get returns None for a key it does not hold.  The result is None
\* or the dict json.loads returns.
cache_get(store, redis_up, cache_prefix, key) ==
    LET cache_key == CacheKey(cache_prefix, key)
        cached_data == store[cache_key].data
    IN  IF ~redis_up THEN None
        ELSE IF store[cache_key].ttl > 0 /\ Len(cached_data) > 0 THEN Some(Loads(cached_data))
        ELSE None
\* A write that leaves a key alone when it already holds a value (SET NX).
cache_set_if_absent(store, redis_up, cache_prefix, key, value, ttl) ==
    LET cache_key == CacheKey(cache_prefix, key)
    IN  IF redis_up /\ ttl > 0 /\ store[cache_key].ttl = 0
        THEN [store EXCEPT ![cache_key] = [data |-> Dumps(value), ttl |-> ttl]]
        ELSE store

\* A write whose entry outlives CACHE_TTL_SECONDS.
cache_set_long_ttl(store, redis_up, cache_prefix, key, value, ttl) ==
    LET cache_key == CacheKey(cache_prefix, key)
    IN  IF redis_up /\ ttl > 0
        THEN [store EXCEPT ![cache_key] = [data |-> Dumps(value), ttl |-> 2 * ttl]]
        ELSE store

\* Lines 88-99.  The store after the call: SETEX replaces what the key holds and
\* starts its TTL anew; a redis call that raises changes nothing.
cache_set(store, redis_up, cache_prefix, key, value, ttl) ==
    LET cache_key == CacheKey(cache_prefix, key)
    IN  IF redis_up /\ ttl > 0
        THEN [store EXCEPT ![cache_key] = [data |-> Dumps(value), ttl |-> ttl]]
        ELSE store

\* DetailedCodesResponse(codes=[...]) and DetailedCodesResponse(**cached)
DetailedCodesResponse(codes) == [codes |-> codes]

Idle == [pc |-> "idle", endpoint |-> "", key |-> "", cached |-> None, response |-> "",
         retry_count |-> 0, streamed |-> 0, discarded |-> FALSE, detailed_codes |-> <<>>, unique_codes |-> <<>>,
         status |-> 0, body |-> DetailedCodesResponse(<<>>)]

Init ==
    /\ redis = [k \in CacheKeys |-> Absent]
    /\ handler = [p \in Procs |-> Idle]
    /\ running = 0
    /\ last_written = [k \in CacheKeys |-> None]
    /\ writes = [k \in CacheKeys |-> 0]
    /\ writer = [k \in CacheKeys |-> ""]
    /\ age = [k \in CacheKeys |-> -1]

\* The handler's frame after it returned or raised: its locals are gone, its
\* response stays.  Raising ends in HTTP 500 (lines 342-343 / 565-566).
Return(frame, body) == [Idle EXCEPT !.pc = "done", !.status = 200, !.body = body]
Raise(frame) == [Idle EXCEPT !.pc = "done", !.status = 500]

(***************************************************************************)
(* The handlers.  A handler runs on the event loop until it awaits or      *)
(* ends; the redis and upstream calls are synchronous.  Handlers are       *)
(* numbered in the order their requests arrive.                            *)
(***************************************************************************)
\* A handler that reads the cache and calls upstream all the same.
Request_always_upstream(p, endpoint, prompt, redis_up) ==
    /\ running = 0
    /\ handler[p].pc = "idle"
    /\ \A q \in Procs : q < p => handler[q].pc /= "idle"
    /\ LET key == Strip(prompt)
           cached == cache_get(redis, redis_up, Prefix(endpoint), key)
           frame == [handler[p] EXCEPT !.endpoint = endpoint, !.key = key, !.cached = cached]
       IN  /\ handler' = [handler EXCEPT ![p] = [frame EXCEPT !.pc = "upstream"]]
           /\ running' = p
    /\ UNCHANGED <<redis, last_written, writes, writer, age>>

\* Lines 117-125 / 356-363: a request arrives, the cache is read.
Request(p, endpoint, prompt, redis_up) ==
    /\ running = 0
    /\ handler[p].pc = "idle"
    /\ \A q \in Procs : q < p => handler[q].pc /= "idle"
    /\ LET key == Strip(prompt)
           cached == cache_get(redis, redis_up, Prefix(endpoint), key)
           frame == [handler[p] EXCEPT !.endpoint = endpoint, !.key = key, !.cached = cached]
       IN  IF ~cached.is_none
           THEN /\ handler' = [handler EXCEPT ![p] = [frame EXCEPT !.pc = "hit_sleep"]]
                /\ running' = 0
           ELSE /\ handler' = [handler EXCEPT ![p] = [frame EXCEPT !.pc = "upstream"]]
                /\ running' = p
    /\ UNCHANGED <<redis, last_written, writes, writer, age>>

\* Lines 123-125 / 362-363: the sleep is over, the cached response is returned.
HitReturn(p) ==
    /\ running = 0
    /\ handler[p].pc = "hit_sleep"
    /\ handler' = [handler EXCEPT ![p] =
                      Return(@, DetailedCodesResponse(handler[p].cached.value.codes))]
    /\ UNCHANGED <<redis, running, last_written, writes, writer, age>>

\* Lines 176-183: the stream delivers a chunk; an empty one is not appended.
GeminiChunk(p, chunk) ==
    /\ running = p
    /\ handler[p].pc = "upstream" /\ handler[p].endpoint = "gemini"
    /\ handler[p].streamed < MaxChunks
    /\ handler' = [handler EXCEPT ![p].streamed = @ + 1,
                                  ![p].response = IF chunk /= "" THEN @ \o chunk ELSE @]
    /\ UNCHANGED <<redis, running, last_written, writes, writer, age>>

\* Line 186: the stream ended without an exception.
GeminiStreamEnd(p) ==
    /\ running = p
    /\ handler[p].pc = "upstream" /\ handler[p].endpoint = "gemini"
    /\ handler' = [handler EXCEPT ![p].pc = "parse"]
    /\ UNCHANGED <<redis, running, last_written, writes, writer, age>>

\* A retry that keeps the chunks of the failed attempt.
GeminiError_keeps_chunks(p, is_503_error) ==
    /\ running = p
    /\ handler[p].pc = "upstream" /\ handler[p].endpoint = "gemini"
    /\ IF is_503_error /\ handler[p].retry_count < max_retries
       THEN handler' = [handler EXCEPT ![p].retry_count = @ + 1,
                                       ![p].discarded = @ \/ handler[p].response /= "",
                                       ![p].streamed = 0, ![p].pc = "retry_sleep"]
       ELSE handler' = [handler EXCEPT ![p] = Raise(@)]
    /\ running' = 0
    /\ UNCHANGED <<redis, last_written, writes, writer, age>>

\* A retry test that is off by one (retry_count <= max_retries).
GeminiError_one_more(p, is_503_error) ==
    /\ running = p
    /\ handler[p].pc = "upstream" /\ handler[p].endpoint = "gemini"
    /\ IF is_503_error /\ handler[p].retry_count <= max_retries
       THEN handler' = [handler EXCEPT ![p].retry_count = @ + 1, ![p].response = "",
                                       ![p].discarded = @ \/ handler[p].response /= "",
                                       ![p].streamed = 0, ![p].pc = "retry_sleep"]
       ELSE handler' = [handler EXCEPT ![p] = Raise(@)]
    /\ running' = 0
    /\ UNCHANGED <<redis, last_written, writes, writer, age>>

\* Lines 188-202: the stream raised; a 503 is retried after a sleep while
\* retries are left, anything else is raised again.  The chunks of the failed
\* attempt are dead from here on: the next use of `response` is its reset at
\* line 198, so the sleeping frame holds it reset already.  `discarded` notes
\* that a failed attempt of this request had streamed text.
GeminiError(p, is_503_error) ==
    /\ running = p
    /\ handler[p].pc = "upstream" /\ handler[p].endpoint = "gemini"
    /\ IF is_503_error /\ handler[p].retry_count < max_retries
       THEN handler' = [handler EXCEPT ![p].retry_count = @ + 1, ![p].response = "",
                                       ![p].discarded = @ \/ handler[p].response /= "",
                                       ![p].streamed = 0, ![p].pc = "retry_sleep"]
       ELSE handler' = [handler EXCEPT ![p] = Raise(@)]
    /\ running' = 0
    /\ UNCHANGED <<redis, last_written, writes, writer, age>>

\* Lines 197-199: the backoff sleep is over; the loop starts the next attempt
\* with an empty response.
GeminiRetry(p) ==
    /\ running = 0
    /\ handler[p].pc = "retry_sleep"
    /\ handler' = [handler EXCEPT ![p].pc = "upstream"]
    /\ running' = p
    /\ UNCHANGED <<redis, last_written, writes, writer, age>>

\* Lines 391-402: the ChatGPT call returns its output text, or raises.
ChatGPTCall(p, output_text, raises) ==
    /\ running = p
    /\ handler[p].pc = "upstream" /\ handler[p].endpoint = "chatgpt"
    /\ IF raises
       THEN /\ handler' = [handler EXCEPT ![p] = Raise(@)]
            /\ running' = 0
       ELSE /\ handler' = [handler EXCEPT ![p].response = output_text, ![p].pc = "parse"]
            /\ running' = p
    /\ UNCHANGED <<redis, last_written, writes, writer, age>>

\* A handler without the test for an empty response.
ParseResponse_no_empty_check(p) ==
    /\ running = p
    /\ handler[p].pc = "parse"
    /\ \E parsed \in {ParseLines(handler[p].endpoint,
                                  Split(Strip(handler[p].response), "\n"), <<>>)} :
          IF ~parsed.ok
          THEN /\ handler' = [handler EXCEPT ![p] = Raise(@)]
               /\ running' = 0
          ELSE /\ handler' = [handler EXCEPT ![p].detailed_codes = parsed.codes,
                                             ![p].pc = "merge"]
               /\ running' = p
    /\ UNCHANGED <<redis, last_written, writes, writer, age>>

\* Lines 204-322 / 404-545: an empty response raises; otherwise the text is
\* stripped, split into lines, and every line is parsed.  A CodeInfo(...) that
\* fails validation raises out of the loop.
ParseResponse(p) ==
    /\ running = p
    /\ handler[p].pc = "parse"
    /\ \E parsed \in {ParseLines(handler[p].endpoint,
                                  Split(Strip(handler[p].response), "\n"), <<>>)} :
          IF handler[p].response = "" \/ ~parsed.ok
          THEN /\ handler' = [handler EXCEPT ![p] = Raise(@)]
               /\ running' = 0
          ELSE /\ handler' = [handler EXCEPT ![p].detailed_codes = parsed.codes,
                                             ![p].pc = "merge"]
               /\ running' = p
    /\ UNCHANGED <<redis, last_written, writes, writer, age>>

\* Lines 324-335 / 547-558: the duplicate codes are merged.
MergeCodes(p) ==
    /\ running = p
    /\ handler[p].pc = "merge"
    /\ handler' = [handler EXCEPT ![p].unique_codes = Merge(handler[p].detailed_codes, <<>>),
                                  ![p].pc = "store"]
    /\ UNCHANGED <<redis, running, last_written, writes, writer, age>>

\* A handler that lets the exception of a failed setex escape.
StoreAndReturn_raises(p, redis_up) ==
    /\ running = p
    /\ handler[p].pc = "store"
    /\ running' = 0
    /\ LET frame == handler[p]
           resp_obj == DetailedCodesResponse(frame.unique_codes)
           cache_key == CacheKey(Prefix(frame.endpoint), frame.key)
       IN  /\ redis' = cache_set(redis, redis_up, Prefix(frame.endpoint), frame.key,
                                 resp_obj, CACHE_TTL_SECONDS)
           /\ IF redis_up
              THEN /\ handler' = [handler EXCEPT ![p] = Return(@, resp_obj)]
                   /\ last_written' = [last_written EXCEPT ![cache_key] = Some(resp_obj)]
                   /\ writes' = [writes EXCEPT ![cache_key] = @ + 1]
                   /\ writer' = [writer EXCEPT ![cache_key] = frame.endpoint]
                   /\ age' = [age EXCEPT ![cache_key] = 0]
              ELSE /\ handler' = [handler EXCEPT ![p] = Raise(@)]
                   /\ UNCHANGED <<last_written, writes, writer, age>>

\* Lines 337-340 / 560-563: the response is stored in the cache and returned.
StoreAndReturn(p, redis_up) ==
    /\ running = p
    /\ handler[p].pc = "store"
    /\ running' = 0
    /\ LET frame == handler[p]
           resp_obj == DetailedCodesResponse(frame.unique_codes)
           cache_key == CacheKey(Prefix(frame.endpoint), frame.key)
       IN  /\ handler' = [handler EXCEPT ![p] = Return(@, resp_obj)]
           /\ redis' = cache_set(redis, redis_up, Prefix(frame.endpoint), frame.key,
                                 resp_obj, CACHE_TTL_SECONDS)
           /\ IF redis_up
              THEN /\ last_written' = [last_written EXCEPT ![cache_key] = Some(resp_obj)]
                   /\ writes' = [writes EXCEPT ![cache_key] = @ + 1]
                   /\ writer' = [writer EXCEPT ![cache_key] = frame.endpoint]
                   /\ age' = [age EXCEPT ![cache_key] = 0]
              ELSE UNCHANGED <<last_written, writes, writer, age>>

(***************************************************************************)
(* The environment                                                         *)
(***************************************************************************)
Min(a, b) == IF a < b THEN a ELSE b

\* Redis counts a TTL down and drops the key when it reaches 0.
Expire(entry, seconds) == IF entry.ttl > seconds
                          THEN [entry EXCEPT !.ttl = @ - seconds]
                          ELSE Absent

\* Time passes.  Only redis reads the clock, and a handler between its redis
\* calls reads nothing a tick changes, so ticks are taken between the runs.
Tick ==
    /\ running = 0
    /\ \E k \in CacheKeys : age[k] >= 0 /\ age[k] < AgeCap
    /\ redis' = [k \in CacheKeys |-> Expire(redis[k], TickSeconds)]
    /\ age' = [k \in CacheKeys |->
                 IF age[k] < 0 THEN age[k] ELSE Min(age[k] + TickSeconds, AgeCap)]
    /\ last_written' = [k \in CacheKeys |->
                          IF redis[k].ttl > TickSeconds THEN last_written[k] ELSE None]
    /\ UNCHANGED <<handler, running, writes, writer>>

Next ==
    \/ \E p \in Procs, e \in Endpoints, prompt \in Prompts, redis_up \in BOOLEAN :
           Request(p, e, prompt, redis_up)
    \/ \E p \in Procs : HitReturn(p)
    \/ \E p \in Procs, chunk \in Chunks : GeminiChunk(p, chunk)
    \/ \E p \in Procs : GeminiStreamEnd(p)
    \/ \E p \in Procs, is_503_error \in BOOLEAN : GeminiError(p, is_503_error)
    \/ \E p \in Procs : GeminiRetry(p)
    \/ \E p \in Procs, output_text \in Chunks \cup {""}, raises \in BOOLEAN :
           ChatGPTCall(p, output_text, raises)
    \/ \E p \in Procs : ParseResponse(p)
    \/ \E p \in Procs : MergeCodes(p)
    \/ \E p \in Procs, redis_up \in BOOLEAN : StoreAndReturn(p, redis_up)
    \/ Tick

Spec == Init /\ [][Next]_vars

(***************************************************************************)
(* The extractor on its own: a handler holds an upstream text and parses,  *)
(* merges, stores and returns it.                                          *)
(***************************************************************************)
InitParse ==
    /\ redis = [k \in CacheKeys |-> Absent]
    /\ \E e \in Endpoints, text \in Texts :
          handler = [p \in Procs |->
                       IF p = 1
                       THEN [Idle EXCEPT !.pc = "parse", !.endpoint = e, !.key = "nike",
                                         !.response = text]
                       ELSE Idle]
    /\ running = 1
    /\ last_written = [k \in CacheKeys |-> None]
    /\ writes = [k \in CacheKeys |-> 0]
    /\ writer = [k \in CacheKeys |-> ""]
    /\ age = [k \in CacheKeys |-> -1]

NextParse ==
    \/ \E p \in Procs : ParseResponse(p)
    \/ \E p \in Procs : MergeCodes(p)
    \/ \E p \in Procs, redis_up \in BOOLEAN : StoreAndReturn(p, redis_up)

SpecParse == InitParse /\ [][NextParse]_vars

(***************************************************************************)
(* The extractor on texts that repeat codes: lines of two codes with every *)
(* combination of genuine and filler fields.                               *)
(***************************************************************************)
MaxMergeLines == 3

MergeLines == {
    "SAVE20 | 20% off | new users",
    "SAVE20 | 10% off | no conditions",
    "SAVE20 | discount not specified | students",
    "SAVE20 | discount not specified | no conditions",
    "GET10 | 5% off | members",
    "GET10 | discount not specified | no conditions" }

RECURSIVE MergeTextsOf(_)
MergeTextsOf(n) == IF n = 1 THEN MergeLines
                   ELSE MergeTextsOf(n - 1)
                        \cup {t \o "\n" \o l : t \in MergeTextsOf(n - 1), l \in MergeLines}

InitMerge ==
    /\ redis = [k \in CacheKeys |-> Absent]
    /\ \E e \in Endpoints, text \in MergeTextsOf(MaxMergeLines) :
          handler = [p \in Procs |->
                       IF p = 1
                       THEN [Idle EXCEPT !.pc = "parse", !.endpoint = e, !.key = "nike",
                                         !.response = text]
                       ELSE Idle]
    /\ running = 1
    /\ last_written = [k \in CacheKeys |-> None]
    /\ writes = [k \in CacheKeys |-> 0]
    /\ writer = [k \in CacheKeys |-> ""]
    /\ age = [k \in CacheKeys |-> -1]

SpecMerge == InitMerge /\ [][NextParse]_vars

(***************************************************************************)
(* Properties                                                              *)
(***************************************************************************)
Range(seq) == {seq[i] : i \in 1..Len(seq)}

Distinct(codes) == \A i, j \in 1..Len(codes) : codes[i].code = codes[j].code => i = j

\* The lines the parse loop sees.
LinesOf(text) == Range(Split(Strip(text), "\n"))

\* The code segment of a line as the text writes it, before upper-casing.
WrittenCode(rawline) ==
    LET line == Strip(rawline)
    IN  IF Contains(line, "|") THEN Strip(Split(line, "|")[1])
        ELSE Strip(SplitOnce(line, " - ")[1])

\* The lines the loop takes for a candidate: not skipped, and in pipe or dash format.
IsCandidate(rawline) ==
    LET line == Strip(rawline)
    IN  /\ line /= "" /\ ~StartsWith(line, "#") /\ Len(line) >= 3
        /\ (Contains(line, "|") \/ Contains(line, " - "))

\* C1: for every input text the parse-and-merge step returns a record list, and
\* no two records of it have the same code.
C1_ReturnsDistinctCodes ==
    \A p \in Procs :
        /\ handler[p].pc = "store" => Distinct(handler[p].unique_codes)
        /\ handler[p].pc = "done" => /\ handler[p].status = 200
                                     /\ Distinct(handler[p].body.codes)

\* C2: when an accepted line gives a code a genuine description and a later
\* accepted line gives the same code only the placeholder, the merged record of
\* that code has has_description true and one of the genuine descriptions.
C2_MergeMonotone ==
    \A p \in Procs :
        handler[p].pc = "store" =>
            LET dc == handler[p].detailed_codes
            IN  \A i, j \in 1..Len(dc) :
                    (i < j /\ dc[i].code = dc[j].code
                       /\ dc[i].has_description /\ ~dc[j].has_description)
                    => \E r \in Range(handler[p].unique_codes) :
                          /\ r.code = dc[i].code
                          /\ r.has_description
                          /\ \E m \in 1..Len(dc) : /\ dc[m].code = r.code
                                                   /\ dc[m].has_description
                                                   /\ dc[m].description = r.description

\* C3: parsing a non-empty upstream text never ends the request in an error.
C3_NoErrorPath ==
    \A p \in Procs : handler[p].pc = "done" => handler[p].status /= 500

FlagsMatchPlaceholders(r) ==
    /\ (~r.has_description) <=> (r.description = DescriptionPlaceholder)
    /\ (~r.has_conditions) <=> (r.conditions = ConditionsPlaceholder)

\* C4: in every record of a parse output a flag is false exactly when its field
\* holds the placeholder.
C4_FlagIffPlaceholder ==
    \A p \in Procs :
        \A r \in Range(handler[p].unique_codes) \cup Range(handler[p].body.codes) :
            FlagsMatchPlaceholders(r)

CodeShape(code) ==
    /\ Len(code) >= 3 /\ Len(code) <= 20
    /\ LET bare == Remove(Remove(Remove(code, "-"), "_"), "%")
       IN  bare /= "" /\ \A i \in 1..Len(bare) :
                             Char(bare, i) \in LowerSet \cup UpperSet \cup DigitSet
    /\ Upper(code) \notin excluded_words

\* C5: every record of a parse output has a code of 3 to 20 characters that is
\* alphanumeric and non-empty once '-', '_' and '%' are removed, and whose
\* upper-cased form is not in the exclusion lexicon.
C5_CodeShape ==
    \A p \in Procs :
        \A r \in Range(handler[p].detailed_codes) \cup Range(handler[p].unique_codes)
                 \cup Range(handler[p].body.codes) :
            CodeShape(r.code)

\* A response with a 20-character code, a 3-character code and a code with '%'.
C5_Witness ==
    \E p \in Procs :
        /\ handler[p].pc = "done" /\ handler[p].status = 200
        /\ \E r \in Range(handler[p].body.codes) : Len(r.code) = 20 \/ Len(r.code) = 3
        /\ \E r \in Range(handler[p].body.codes) : Contains(r.code, "%")

\* The value the classification rule gives a field: the placeholder and a false
\* flag when the value is empty or a filler phrase, else the value and a true flag.
Classified(value, fillers, placeholder) ==
    IF value = "" \/ Lower(value) \in fillers
    THEN [text |-> placeholder, flag |-> FALSE]
    ELSE [text |-> value, flag |-> TRUE]

\* The fields of a pipe-format line as they reach the classification.
PipeField(endpoint, line, n) ==
    LET raw == Split(Strip(line), "|")
        value == IF n <= Len(raw) THEN Strip(raw[n]) ELSE MissingConditions
    IN  IF endpoint = "chatgpt" THEN clean_source_references(value) ELSE value

IsAcceptedPipe(line) ==
    /\ IsCandidate(line) /\ Contains(line, "|")
    /\ PipeGate(Upper(WrittenCode(line)))

\* C6: every pipe-format line that passes the gate yields a record whose
\* description and conditions are classified by the rule.
C6_FieldClassification ==
    [][\A p \in Procs :
          (handler[p].pc = "parse" /\ handler'[p].pc /= "parse") =>
              \A line \in LinesOf(handler[p].response) :
                  IsAcceptedPipe(line) =>
                      LET d == Classified(PipeField(handler[p].endpoint, line, 2),
                                          DescriptionFillers, DescriptionPlaceholder)
                          c == Classified(PipeField(handler[p].endpoint, line, 3),
                                          ConditionsFillers, ConditionsPlaceholder)
                      IN  \E r \in Range(handler'[p].detailed_codes) :
                              /\ r.code = Upper(WrittenCode(line))
                              /\ r.description = d.text /\ r.has_description = d.flag
                              /\ r.conditions = c.text /\ r.has_conditions = c.flag]_vars

\* C7: a text whose candidate lines all have a code segment that, as written,
\* has no digit and is not fully upper-case yields no record.
C7_ProseRejected ==
    \A p \in Procs :
        (/\ handler[p].pc \in {"merge", "store"}
         /\ \A line \in LinesOf(handler[p].response) :
               IsCandidate(line) => /\ ~AnyDigit(WrittenCode(line))
                                    /\ ~IsUpper(WrittenCode(line)))
        => handler[p].detailed_codes = <<>>

\* C8: what a key holds is exactly what the last successful write stored, with
\* the TTL counted from that write.
C8_LastWriteWins ==
    \A k \in CacheKeys :
        /\ writes[k] > 0 /\ age[k] < CACHE_TTL_SECONDS
           => /\ ~last_written[k].is_none
              /\ redis[k].data = Dumps(last_written[k].value)
              /\ redis[k].ttl = CACHE_TTL_SECONDS - age[k]
        /\ writes[k] = 0 => redis[k] = Absent

\* A key written twice holds the second value at the full TTL, while a finished
\* request holds another record set.
C8_Witness ==
    \E k \in CacheKeys :
        /\ writes[k] >= 2
        /\ redis[k].ttl = CACHE_TTL_SECONDS
        /\ redis[k].data = Dumps(last_written[k].value)
        /\ \E p \in Procs : /\ handler[p].pc = "done" /\ handler[p].status = 200
                            /\ handler[p].body /= last_written[k].value

\* C9: right after a successful cache_set, cache_get on the same prefix and key
\* returns the value that was set.
C9_RoundTrip ==
    \A e \in Endpoints, prompt \in Prompts :
        LET k == CacheKey(Prefix(e), Strip(prompt))
        IN  (writes[k] > 0 /\ age[k] = 0)
            => cache_get(redis, TRUE, Prefix(e), Strip(prompt)) = last_written[k]

\* A stored response of two records, and its round trip.
C9_Witness ==
    \E e \in Endpoints, prompt \in Prompts :
        LET k == CacheKey(Prefix(e), Strip(prompt))
        IN  /\ writes[k] > 0 /\ age[k] = 0
            /\ Len(last_written[k].value.codes) = 2
            /\ ~cache_get(redis, TRUE, Prefix(e), Strip(prompt)).is_none

Stale(k) == age[k] = -1 \/ age[k] >= CACHE_TTL_SECONDS

\* The (prefix, key) pairs cache_get and cache_set are called with.
KeyPairs == {<<Prefix(e), Strip(prompt)>> : e \in Endpoints, prompt \in Prompts}

KeyOf == [pk \in KeyPairs |-> CacheKey(pk[1], pk[2])]

\* C10: cache_get returns None for a key never written and for a key written
\* CACHE_TTL_SECONDS or longer ago; the endpoints write with a TTL of 3600
\* seconds, and a request that arrives for such a key misses.
C10_Expiry ==
    [][/\ \A pk \in KeyPairs :
             /\ Stale(KeyOf[pk])' => cache_get(redis', TRUE, pk[1], pk[2]).is_none
             /\ (writes[KeyOf[pk]]' > writes[KeyOf[pk]]) => redis'[KeyOf[pk]].ttl = 60 * 60
       /\ \A p \in Procs :
             (handler[p].pc = "idle" /\ handler'[p].pc /= "idle"
                /\ Stale(CacheKey(Prefix(handler'[p].endpoint), handler'[p].key)))
             => handler'[p].pc = "upstream"]_vars

\* A request that missed on a key written CACHE_TTL_SECONDS or longer ago.
C10_Witness ==
    \E p \in Procs :
        LET k == CacheKey(Prefix(handler[p].endpoint), handler[p].key)
        IN  /\ handler[p].pc = "upstream" /\ running = p
            /\ writes[k] > 0 /\ age[k] >= CACHE_TTL_SECONDS

\* The cache key of a handler's request.
KeyOfFrame(frame) == CacheKey(Prefix(frame.endpoint), frame.key)

\* A handler that has just taken the miss branch: it holds the event loop and
\* has not yet called upstream.
JustMissed(p) ==
    /\ handler[p].pc = "upstream" /\ running = p
    /\ handler[p].retry_count = 0 /\ handler[p].streamed = 0

\* C11: a request's cache read ends in a hit or in the miss branch with the
\* frame of a miss, never in an error, also when redis raises; and the step
\* that stores returns the parsed record set with status 200 whether or not
\* the write succeeded.
C11_StoreFailureDegrades ==
    [][\A p \in Procs :
          /\ (handler[p].pc = "idle" /\ handler'[p].pc /= "idle")
             => /\ redis' = redis
                /\ handler'[p].status = 0
                /\ \/ /\ handler'[p].pc = "hit_sleep"
                      /\ redis[KeyOfFrame(handler'[p])].ttl > 0
                   \/ /\ handler'[p] = [Idle EXCEPT !.pc = "upstream",
                                                    !.endpoint = handler'[p].endpoint,
                                                    !.key = handler'[p].key]
                      /\ running' = p
          /\ (handler[p].pc = "store" /\ handler'[p].pc /= "store")
             => /\ handler'[p].pc = "done" /\ handler'[p].status = 200
                /\ handler'[p].body = DetailedCodesResponse(handler[p].unique_codes)]_vars

\* A request took the miss branch although redis holds a live entry for its
\* key (the read raised), after another request's records were returned.
C11_Witness ==
    \E p, q \in Procs :
        /\ JustMissed(q) /\ redis[KeyOfFrame(handler[q])].ttl > 0
        /\ handler[p].pc = "done" /\ handler[p].status = 200
        /\ Len(handler[p].body.codes) > 0

\* The positions of the miss branch: the upstream call, the parser, the write.
MissBranch == {"upstream", "retry_sleep", "parse", "merge", "store"}

\* C12: a handler is in the miss branch only with nothing read from the cache;
\* a hit touches none of the locals of the upstream call and the parser, and
\* ends by returning the records read from the cache, with the cache as it was.
C12_HitBypasses ==
    [][\A p \in Procs :
          /\ handler'[p].pc \in MissBranch => handler'[p].cached.is_none
          /\ handler'[p].pc = "hit_sleep"
             => /\ ~handler'[p].cached.is_none
                /\ handler'[p] = [Idle EXCEPT !.pc = "hit_sleep",
                                              !.endpoint = handler'[p].endpoint,
                                              !.key = handler'[p].key,
                                              !.cached = handler'[p].cached]
          /\ (handler[p].pc = "idle" /\ handler'[p].pc = "hit_sleep")
             => /\ handler'[p].cached = Some(Loads(redis[KeyOfFrame(handler'[p])].data))
                /\ redis' = redis /\ writes' = writes
          /\ (handler[p].pc = "hit_sleep" /\ handler'[p].pc /= "hit_sleep")
             => /\ handler'[p].pc = "done" /\ handler'[p].status = 200
                /\ handler'[p].body.codes = handler[p].cached.value.codes
                /\ redis' = redis /\ writes' = writes /\ age' = age]_vars

\* A request hit the entry another request wrote: it holds the records of that
\* response, and the key was written once.
C12_Witness ==
    \E p, q \in Procs :
        /\ handler[q].pc = "hit_sleep"
        /\ Len(handler[q].cached.value.codes) > 0
        /\ handler[p].pc = "done" /\ handler[p].status = 200
        /\ handler[p].body.codes = handler[q].cached.value.codes
        /\ writes[KeyOfFrame(handler[q])] = 1

CodesOf(codes) == [i \in 1..Len(codes) |-> codes[i].code]

\* The codes of a record list in the order of their first occurrence.
RECURSIVE FirstCodes(_, _)
FirstCodes(codes, seen) ==
    IF codes = <<>> THEN <<>>
    ELSE IF Head(codes).code \in seen THEN FirstCodes(Tail(codes), seen)
    ELSE <<Head(codes).code>> \o FirstCodes(Tail(codes), seen \cup {Head(codes).code})

\* C13: the merged list, and the list returned, hold the codes in the order in
\* which the parse pass first accepted them.
C13_FirstAcceptanceOrder ==
    [][\A p \in Procs :
          /\ (handler[p].pc = "merge" /\ handler'[p].pc = "store")
             => CodesOf(handler'[p].unique_codes) = FirstCodes(handler[p].detailed_codes, {})
          /\ (handler[p].pc = "store" /\ handler'[p].pc = "done")
             => CodesOf(handler'[p].body.codes) = FirstCodes(handler[p].detailed_codes, {})]_vars

\* Three accepted records, the third replacing the first: the code keeps the
\* first place.
C13_Witness ==
    \E p \in Procs :
        LET dc == handler[p].detailed_codes
            uc == handler[p].unique_codes
        IN  /\ handler[p].pc = "store"
            /\ Len(dc) = 3 /\ dc[1].code = dc[3].code /\ dc[1].code /= dc[2].code
            /\ Len(uc) = 2 /\ uc[1] = dc[3] /\ dc[3] /= dc[1] /\ uc[2] = dc[2]

\* The replace rule as the claim states it.
RuleReplaces(new, old) ==
    \/ new.has_description /\ ~old.has_description
    \/ new.has_conditions /\ ~old.has_conditions

\* The record left of a stored record and the later records of its code.
RECURSIVE Kept(_, _)
Kept(stored, later) ==
    IF later = <<>> THEN stored
    ELSE Kept(IF RuleReplaces(Head(later), stored) THEN Head(later) ELSE stored, Tail(later))

\* The records of a code, in order.
RECURSIVE RecordsOf(_, _)
RecordsOf(codes, code) ==
    IF codes = <<>> THEN <<>>
    ELSE (IF Head(codes).code = code THEN <<Head(codes)>> ELSE <<>>)
         \o RecordsOf(Tail(codes), code)

\* C14: after the merge, the record of every code is what the replace rule
\* leaves of that code's accepted records, taken in order.
C14_ReplaceRule ==
    \A p \in Procs :
        handler[p].pc = "store" =>
            \A r \in Range(handler[p].unique_codes) :
                LET occ == RecordsOf(handler[p].detailed_codes, r.code)
                IN  r = Kept(Head(occ), Tail(occ))

\* A code first seen with a genuine description and filler conditions, then
\* with a genuine description and genuine conditions: the later record stays.
C14_Witness ==
    \E p \in Procs :
        LET dc == handler[p].detailed_codes
            uc == handler[p].unique_codes
        IN  /\ handler[p].pc = "store"
            /\ Len(dc) >= 2 /\ dc[1].code = dc[2].code
            /\ dc[1].has_description /\ ~dc[1].has_conditions
            /\ dc[2].has_description /\ dc[2].has_conditions
            /\ uc[1].conditions = dc[2].conditions /\ uc[1].description = dc[2].description
            /\ dc[2].description /= dc[1].description

\* C15: a handler leaves the upstream call for its end only with status 500, an
\* empty upstream text ends in status 500, a step that ends a request in status
\* 500 leaves the cache as it was, and an entry is created or overwritten only
\* by the step that returns a parsed response.
C15_UpstreamFailure ==
    [][/\ \A p \in Procs :
             /\ (handler[p].pc = "upstream" /\ handler'[p].pc = "done")
                => handler'[p].status = 500
             /\ (handler[p].pc = "parse" /\ handler[p].response = ""
                   /\ handler'[p].pc /= "parse")
                => handler'[p].pc = "done" /\ handler'[p].status = 500
             /\ (handler[p].status /= 500 /\ handler'[p].status = 500)
                => /\ redis' = redis /\ writes' = writes
                   /\ last_written' = last_written
       /\ \A k \in CacheKeys :
             (redis'[k].ttl > 0
                /\ (redis'[k].data /= redis[k].data \/ redis'[k].ttl > redis[k].ttl))
             => \E p \in Procs : /\ handler[p].pc = "store" /\ KeyOfFrame(handler[p]) = k
                                 /\ handler'[p].status = 200
                                 /\ redis'[k].data = Dumps(handler'[p].body)]_vars

\* A request ended in status 500 and the cache holds nothing but the one entry
\* a successful request wrote.
C15_Witness ==
    \E p, q \in Procs, k \in CacheKeys :
        /\ handler[p].pc = "done" /\ handler[p].status = 500
        /\ handler[q].pc = "done" /\ handler[q].status = 200
        /\ redis[k].ttl > 0 /\ redis[k].data = Dumps(handler[q].body)
        /\ writes[k] = 1
        /\ \A k2 \in CacheKeys \ {k} : redis[k2] = Absent /\ writes[k2] = 0

\* C16: a request makes at most 3 upstream attempts; an attempt after the first
\* starts only after a 503 error, each counted once; an error that is not a 503,
\* and a 503 on the third attempt, end the request in status 500.
C16_AtMostThreeAttempts ==
    [][\A p \in Procs :
          /\ handler'[p].retry_count + 1 <= 3
          /\ GeminiError(p, FALSE)
             => handler'[p].pc = "done" /\ handler'[p].status = 500
          /\ (GeminiError(p, TRUE) /\ handler[p].retry_count + 1 = 3)
             => handler'[p].pc = "done" /\ handler'[p].status = 500
          /\ (handler[p].pc /= "retry_sleep" /\ handler'[p].pc = "retry_sleep")
             => /\ GeminiError(p, TRUE)
                /\ handler'[p].retry_count = handler[p].retry_count + 1
          /\ (handler[p].pc /= "upstream" /\ handler'[p].pc = "upstream")
             => \/ handler[p].pc = "idle" /\ handler'[p].retry_count = 0
                \/ /\ handler[p].pc = "retry_sleep" /\ handler'[p].endpoint = "gemini"
                   /\ handler'[p].retry_count = handler[p].retry_count]_vars

\* A third attempt, after two 503 errors, delivered a text that was parsed.
C16_Witness ==
    \E p \in Procs :
        /\ handler[p].pc = "store" /\ handler[p].endpoint = "gemini"
        /\ handler[p].retry_count = 2
        /\ handler[p].response /= ""

\* The texts an attempt can hold after n chunks.
RECURSIVE AttemptTexts(_)
AttemptTexts(n) ==
    IF n = 0 THEN {""} ELSE {t \o c : t \in AttemptTexts(n - 1), c \in Chunks}

AttemptTextsAfter == [n \in 0..MaxChunks |-> AttemptTexts(n)]

\* C17: the response of a /codes-detailed handler is the text of the chunks of
\* its current attempt and nothing else, and the records the parser produced
\* are the records of that text.
C17_OnlyFinalAttempt ==
    \A p \in Procs :
        (handler[p].endpoint = "gemini" /\ handler[p].pc \in MissBranch \ {"retry_sleep"})
        => /\ handler[p].response \in AttemptTextsAfter[handler[p].streamed]
           /\ handler[p].pc \in {"merge", "store"}
              => handler[p].detailed_codes
                   = ParseLines("gemini", Split(Strip(handler[p].response), "\n"), <<>>).codes

\* A request whose failed attempt had streamed text holds, at the store step,
\* one chunk: the one of its last attempt.
C17_Witness ==
    \E p \in Procs :
        /\ handler[p].endpoint = "gemini" /\ handler[p].pc = "store"
        /\ handler[p].discarded /\ handler[p].retry_count >= 1
        /\ handler[p].streamed = 1 /\ handler[p].response \in Chunks
        /\ Len(handler[p].unique_codes) = 1

\* C18: a request hits only on a live entry that a request of its own endpoint
\* wrote, and it reads the value of that write.
C18_PrefixIsolation ==
    [][\A p \in Procs :
          (handler[p].pc = "idle" /\ handler'[p].pc = "hit_sleep")
          => \E k \in CacheKeys : /\ redis[k].ttl > 0
                                  /\ writer[k] = handler'[p].endpoint
                                  /\ handler'[p].cached = last_written[k]]_vars

\* With the same prompt, a request of one endpoint stands in the miss branch
\* while the other endpoint's entry is live and its own endpoint wrote nothing.
C18_Witness ==
    \E q \in Procs, k \in CacheKeys :
        /\ JustMissed(q)
        /\ redis[k].ttl > 0 /\ writer[k] /= handler[q].endpoint
        /\ Len(last_written[k].value.codes) > 0
        /\ \A k2 \in CacheKeys : writer[k2] /= handler[q].endpoint
        /\ \E p \in Procs : /\ handler[p].pc = "done" /\ handler[p].status = 200
                            /\ handler[p].body = last_written[k].value

EmptyResponse == DetailedCodesResponse(<<>>)

\* The key holds, live, the empty record set as its last written value.
HoldsEmpty(k) == redis[k].ttl > 0 /\ last_written[k] = Some(EmptyResponse)

\* C19: a store step whose setex succeeds stores an empty merged list like any
\* other, with the full TTL; a request that reads the cache while the key
\* holds that entry is a hit with the empty record set; and the hit returns it
\* with no upstream call.
C19_EmptyResultCached ==
    [][\A p \in Procs :
          /\ (StoreAndReturn(p, TRUE) /\ handler[p].unique_codes = <<>>)
             => /\ redis'[KeyOfFrame(handler[p])]
                     = [data |-> Dumps(EmptyResponse), ttl |-> CACHE_TTL_SECONDS]
                /\ last_written'[KeyOfFrame(handler[p])] = Some(EmptyResponse)
          /\ \A e \in Endpoints, prompt \in Prompts :
                (Request(p, e, prompt, TRUE) /\ HoldsEmpty(KeyOfFrame(handler'[p])))
                => /\ handler'[p].pc = "hit_sleep"
                   /\ handler'[p].cached = Some(EmptyResponse)
                   /\ handler'[p].response = "" /\ running' = 0
          /\ (handler[p].pc = "hit_sleep" /\ handler[p].cached = Some(EmptyResponse)
                /\ handler'[p].pc /= "hit_sleep")
             => /\ handler'[p].pc = "done" /\ handler'[p].status = 200
                /\ handler'[p].body = EmptyResponse]_vars

\* A request hit the empty record set that another request had parsed from a
\* text without codes, returned and stored.
C19_Witness ==
    \E p, q \in Procs :
        /\ handler[q].pc = "hit_sleep" /\ handler[q].cached = Some(EmptyResponse)
        /\ HoldsEmpty(KeyOfFrame(handler[q]))
        /\ writes[KeyOfFrame(handler[q])] = 1
        /\ handler[p].pc = "done" /\ handler[p].status = 200
        /\ handler[p].body = EmptyResponse

\* A record as only the pipe branch produces it.
PipeOnly(r) ==
    Contains(r.code, "%") \/ r.has_conditions \/ r.conditions /= ConditionsPlaceholder

\* C20: the records of a text without pipe-format lines have no '%' in the
\* code, has_conditions false and the conditions placeholder; in any text, a
\* record with '%' in the code, has_conditions true or other conditions has
\* the code of a pipe-format line.
C20_DashGate ==
    \A p \in Procs :
        handler[p].pc \in {"merge", "store"} =>
            LET lines == LinesOf(handler[p].response)
            IN  \A r \in Range(handler[p].detailed_codes) :
                    /\ (\A line \in lines : ~Contains(line, "|")) => ~PipeOnly(r)
                    /\ PipeOnly(r) => \E line \in lines : /\ Contains(line, "|")
                                                          /\ Upper(WrittenCode(line)) = r.code

\* A dash-format line and a pipe-format line write the same code with '%';
\* the text has one record, with conditions: the pipe-format line's.
C20_Witness ==
    \E p \in Procs :
        /\ handler[p].pc = "store"
        /\ \E l1, l2 \in LinesOf(handler[p].response) :
              /\ ~Contains(l1, "|") /\ Contains(l1, " - ") /\ Contains(l2, "|")
              /\ WrittenCode(l1) = WrittenCode(l2) /\ Contains(WrittenCode(l1), "%")
              /\ Len(handler[p].detailed_codes) = 1
              /\ handler[p].detailed_codes[1].code = Upper(WrittenCode(l2))
              /\ handler[p].detailed_codes[1].has_conditions
====
